---- MODULE Spec2Model ----
(***************************************************************************)
(* A model of ptcha/uchebprog:                                             *)
(*   - generate_programs.py: the transform pipeline (main) and the record  *)
(*     normalizer (generate_program_card);                                 *)
(*   - parser_educational_programs.py: the collection pipeline             *)
(*     (EducationalProgramParser).                                         *)
(*                                                                         *)
(* A Python str is a sequence of characters.  An ASCII character is the    *)
(* one-letter string of itself; a Cyrillic letter is written "cy-<name>"   *)
(* (the module text is ASCII).  A string literal of the source whose       *)
(* characters no operation of the program inspects is written as a         *)
(* one-symbol sequence naming the literal.                                 *)
(***************************************************************************)
EXTENDS Integers, Sequences, FiniteSets, TLC

VARIABLES
    tableCsv,     \* the file table.csv: [state, header, lines]
    programsJs,   \* the file programs.js: [state, date, body]
    pc,           \* position of main() of generate_programs.py
    data,         \* main: data = list(reader)
    idx,          \* main: number of rows of data the for loop has taken
    js_programs,  \* main: js_programs
    stdout,       \* main: the messages printed so far
    exit,         \* main: how the process ended ("running" while it has not)
    crow,         \* the row handed to generate_program_card on its own
    cres,         \* the outcome of that call
    target_list,  \* parser: self.target_list, the macro-groups in file order
    min_programs, \* parse_all_sources: min_programs
    self_data,    \* parser: self.data
    stats,        \* parser: self.stats
    ppc,          \* position of parse_all_sources
    grp,          \* parse_all_sources: index of the macro-group of the outer loop
    phase,        \* parse_all_sources: "vo" or "spo", the inner loop
    kpos,         \* parse_all_sources: number of codes the inner loop has taken
    attempts,     \* the source requests and synthetic generations made, in order
    df,           \* parse_all_sources: the DataFrame returned; run: df
    csvFile       \* the file educational_programs_2024.csv: [state, rows]

vars == <<tableCsv, programsJs, pc, data, idx, js_programs, stdout, exit, crow, cres,
          target_list, min_programs, self_data, stats, ppc, grp, phase, kpos, attempts, df,
          csvFile>>

pvars == <<target_list, min_programs, self_data, stats, ppc, grp, phase, kpos, attempts, df,
           csvFile>>

tvars == <<tableCsv, programsJs, pc, data, idx, js_programs, stdout, exit>>
cvars == <<crow, cres>>

(***************************************************************************)
(* Bounds of the model.                                                    *)
(***************************************************************************)
MaxLen == 2      \* longest free text drawn over Alphabet
MaxRows == 2     \* most data lines of table.csv
MaxMinPrograms == 7   \* largest min_programs handed to parse_all_sources

Range(s) == {s[i] : i \in DOMAIN s}

(***************************************************************************)
(* Python str operations used by the source.                               *)
(***************************************************************************)
Whitespace == {" "}
Digits == {"0", "1", "2", "3", "4", "5", "6", "7", "8", "9"}

DigitValue(c) ==
    CASE c = "0" -> 0 [] c = "1" -> 1 [] c = "2" -> 2 [] c = "3" -> 3
      [] c = "4" -> 4 [] c = "5" -> 5 [] c = "6" -> 6 [] c = "7" -> 7
      [] c = "8" -> 8 [] c = "9" -> 9

\* str.replace(old, new) for a one-character old
RECURSIVE replace(_, _, _)
replace(s, old, new) ==
    IF s = <<>> THEN <<>>
    ELSE (IF Head(s) = old THEN new ELSE <<Head(s)>>) \o replace(Tail(s), old, new)

RECURSIVE lstrip(_)
lstrip(s) ==
    IF s # <<>> /\ Head(s) \in Whitespace THEN lstrip(Tail(s)) ELSE s

RECURSIVE rstrip(_)
rstrip(s) ==
    IF s # <<>> /\ s[Len(s)] \in Whitespace THEN rstrip(SubSeq(s, 1, Len(s) - 1)) ELSE s

\* str.strip()
strip(s) == rstrip(lstrip(s))

\* sub in s
Contains(s, sub) ==
    \E i \in 0..(Len(s) - Len(sub)) : SubSeq(s, i + 1, i + Len(sub)) = sub

\* html.escape(s, quote=False): the two quote characters are left alone
html_escape_noquote(s) ==
    LET s1 == replace(s, "&", <<"&", "a", "m", "p", ";">>)
        s2 == replace(s1, "<", <<"&", "l", "t", ";">>)
    IN  replace(s2, ">", <<"&", "g", "t", ";">>)

\* html.escape(s), quote=True: five replacements, "&" first
html_escape(s) ==
    LET s1 == replace(s, "&", <<"&", "a", "m", "p", ";">>)
        s2 == replace(s1, "<", <<"&", "l", "t", ";">>)
        s3 == replace(s2, ">", <<"&", "g", "t", ";">>)
        s4 == replace(s3, "\"", <<"&", "q", "u", "o", "t", ";">>)
    IN  replace(s4, "'", <<"&", "#", "x", "2", "7", ";">>)

\* re.findall(r'\d+', s): the maximal digit runs of s, left to right
RECURSIVE TakeDigits(_)
TakeDigits(s) ==
    IF s # <<>> /\ Head(s) \in Digits THEN <<Head(s)>> \o TakeDigits(Tail(s)) ELSE <<>>

RECURSIVE findall_digits(_)
findall_digits(s) ==
    IF s = <<>> THEN <<>>
    ELSE IF Head(s) \in Digits
         THEN LET run == TakeDigits(s)
              IN  <<run>> \o findall_digits(SubSeq(s, Len(run) + 1, Len(s)))
         ELSE findall_digits(Tail(s))

\* int(run) of a digit run
RECURSIVE int(_)
int(run) ==
    IF run = <<>> THEN 0
    ELSE 10 * int(SubSeq(run, 1, Len(run) - 1)) + DigitValue(run[Len(run)])

\* json.dumps of a str value, ensure_ascii=False: backslash and double quote
\* are escaped (the text between the delimiting quotes)
json_string(s) ==
    replace(replace(s, "\\", <<"\\", "\\">>), "\"", <<"\\", "\"">>)

(***************************************************************************)
(* Values of a csv.DictReader row: a str, or None for a column the line    *)
(* has no cell for (restval).                                              *)
(***************************************************************************)
Str(s) == [none |-> FALSE, s |-> s]
None == [none |-> TRUE, s |-> <<>>]

\* position of column c in the header
ColIndex(header, c) == CHOOSE j \in DOMAIN header : header[j] = c

\* csv.DictReader: one row from the header and the cells of a line
DictRow(header, cells) ==
    [c \in Range(header) |->
        IF ColIndex(header, c) <= Len(cells) THEN Str(cells[ColIndex(header, c)])
        ELSE None]

\* dict.get(key, default)
get(program_data, key, default) ==
    IF key \in DOMAIN program_data THEN program_data[key] ELSE default

(***************************************************************************)
(* generate_program_card                                                   *)
(***************************************************************************)
\* the marker 'СПО'
Marker == <<"cy-S", "cy-P", "cy-O">>

\* the phrase 'Есть бюджетные места'
Phrase == <<"cy-E", "cy-s", "cy-t", "cy-soft", " ",
            "cy-b", "cy-yu", "cy-d", "cy-zh", "cy-e", "cy-t", "cy-n", "cy-y", "cy-e", " ",
            "cy-m", "cy-e", "cy-s", "cy-t", "cy-a">>

CardKeys == {"program_name", "education_level", "institution_name", "region",
             "budget_seats", "url", "fgos_code", "macrogroup_name"}

\* program_data.get(key, '').strip() raises AttributeError on None
CardRaises(program_data) ==
    \E k \in CardKeys : get(program_data, k, Str(<<>>)).none

\* html.escape(program_data.get(key, '').strip())
CardField(program_data, key) ==
    html_escape(strip(get(program_data, key, Str(<<>>)).s))

\* the level decided on the first two letters of the marker only
CardLevelPrefix(education_level) ==
    IF ~Contains(education_level, <<"cy-S", "cy-P">>) THEN <<"VO">> ELSE <<"SPO">>

\* level / level_readable
CardLevel(education_level) ==
    IF ~Contains(education_level, Marker) THEN <<"VO">> ELSE <<"SPO">>

CardLevelReadable(education_level) ==
    IF ~Contains(education_level, Marker) THEN <<"Bakalavriat">> ELSE <<"Kolledzh">>

\* places
CardPlaces(budget_seats) ==
    IF budget_seats # <<>>
    THEN LET numbers == findall_digits(budget_seats)
         IN  IF numbers # <<>> THEN int(numbers[1])
             ELSE IF Contains(budget_seats, Phrase) THEN 1
             ELSE 0
    ELSE 0

\* program_obj
program_obj(program_data) ==
    LET title == CardField(program_data, "program_name")
        education_level == CardField(program_data, "education_level")
        institution == CardField(program_data, "institution_name")
        region == CardField(program_data, "region")
        budget_seats == CardField(program_data, "budget_seats")
        url == CardField(program_data, "url")
        fgos_code == CardField(program_data, "fgos_code")
        macrogroup_name == CardField(program_data, "macrogroup_name")
        description == IF macrogroup_name # <<>> THEN macrogroup_name
                       ELSE <<"Opisanie programmy zagruzhaetsya...">>
    IN  [title |-> IF title # <<>> THEN title ELSE <<"Bez nazvaniya">>,
         fgos_code |-> IF fgos_code # <<>> THEN fgos_code ELSE <<"--">>,
         fgos_name |-> macrogroup_name,
         institution |-> IF institution # <<>> THEN institution ELSE <<"Ne ukazan">>,
         district |-> IF region # <<>> THEN region ELSE <<"RF">>,
         level |-> CardLevel(education_level),
         level_readable |-> CardLevelReadable(education_level),
         base |-> <<"11 klassov">>,
         duration |-> <<"4 goda">>,
         category |-> IF macrogroup_name # <<>> THEN macrogroup_name ELSE <<"Obshchee">>,
         tags |-> << <<"Byudzhet">> >>,
         places |-> CardPlaces(budget_seats),
         salary |-> <<"po itogam">>,
         desc |-> description,
         color |-> <<"blue">>,
         quiz_cat |-> <<"Tech">>,
         url |-> url]

\* json.dumps(program_obj, ensure_ascii=False): the object with every str
\* value in its JSON encoding
json_dumps(obj) ==
    [title |-> json_string(obj.title),
     fgos_code |-> json_string(obj.fgos_code),
     fgos_name |-> json_string(obj.fgos_name),
     institution |-> json_string(obj.institution),
     district |-> json_string(obj.district),
     level |-> json_string(obj.level),
     level_readable |-> json_string(obj.level_readable),
     base |-> json_string(obj.base),
     duration |-> json_string(obj.duration),
     category |-> json_string(obj.category),
     tags |-> [i \in DOMAIN obj.tags |-> json_string(obj.tags[i])],
     places |-> obj.places,
     salary |-> json_string(obj.salary),
     desc |-> json_string(obj.desc),
     color |-> json_string(obj.color),
     quiz_cat |-> json_string(obj.quiz_cat),
     url |-> json_string(obj.url)]

generate_program_card(program_data) == json_dumps(program_obj(program_data))

(***************************************************************************)
(* Inputs.                                                                 *)
(***************************************************************************)
Alphabet == {"a", " ", "&", "<", ">", "\"", "'", "5", "\\"}

\* every text over Alphabet of at most n characters
StringsUpTo(n) == UNION {[1..k -> Alphabet] : k \in 0..n}

Texts == StringsUpTo(MaxLen)

Affixes == {<<>>, <<" ">>, <<"'">>, <<"5">>, <<"a">>}

\* texts around the marker, and around near misses of it
MarkerLike == {Marker, <<"cy-S", "cy-P">>, <<"cy-P", "cy-O">>, <<"cy-S", "cy-O", "cy-P">>}
LevelTexts == Texts \cup {p \o m \o q : p \in Affixes, m \in MarkerLike, q \in Affixes}

\* texts around the phrase, and around a near miss of it
PhraseLike == {Phrase, SubSeq(Phrase, 1, Len(Phrase) - 1)}
BudgetTexts ==
    Texts \cup {p \o m \o q : p \in Affixes, m \in PhraseLike, q \in Affixes}
          \cup {<<"2", "0", " ", "a">>, <<"1", "5", "a", "5">>, <<"a", "1", "5">>}

TextsFor(key) ==
    CASE key = "education_level" -> LevelTexts
      [] key = "budget_seats" -> BudgetTexts
      [] OTHER -> Texts

\* the columns of a full table, in header order
FullHeader == <<"program_name", "url", "education_level", "institution_name",
                "region", "budget_seats", "fgos_code", "macrogroup_name">>

\* the lines the varied cell is put into: every cell set, or only the required ones
BaseCells == {[j \in 1..8 |-> <<"a">>],
              [j \in 1..8 |-> IF j <= 2 THEN <<"a">> ELSE <<>>]}

\* the cells of table.csv in the pipeline runs
CellTexts == {<<>>, <<" ">>, <<"a">>}

Headers == {<<"program_name", "url", "region">>, <<"program_name", "budget_seats">>}

\* csv: a non-empty line has at least one cell; cells past the header go to
\* the restkey, which nothing reads
LinesOf(header) == UNION {[1..n -> CellTexts] : n \in 1..Len(header)}

AbsentFile == [state |-> "absent", header |-> <<>>, lines |-> <<>>]
UnreadableFile == [state |-> "unreadable", header |-> <<>>, lines |-> <<>>]
EmptyFile == [state |-> "ok", header |-> <<>>, lines |-> <<>>]

\* a readable table.csv: a header and at most MaxRows data lines
IsTable(file) ==
    \E h \in Headers, n \in 0..MaxRows :
        \E ls \in [1..n -> LinesOf(h)] :
            file = [state |-> "ok", header |-> h, lines |-> ls]

\* a row handed to generate_program_card on its own: one cell varied over
\* its texts, or the row of a short line or of a narrow header
IsCardRow(row) ==
    \E b \in BaseCells :
        \/ \E j \in 1..8 : \E t \in TextsFor(FullHeader[j]) :
              row = DictRow(FullHeader, [b EXCEPT ![j] = t])
        \/ \E n \in 1..8 : \E m \in 1..n :
              row = DictRow(SubSeq(FullHeader, 1, n), SubSeq(b, 1, m))

Dates == {"01.11.2026", "02.11.2026"}

NoProgramsJs == [state |-> "absent", date |-> "", body |-> <<>>]
OldProgramsJs == [state |-> "old", date |-> "", body |-> <<>>]

Msg(m) == [msg |-> m, row |-> 0, fields |-> <<>>]

Pending == [state |-> "pending", obj |-> <<>>]

(***************************************************************************)
(* EducationalProgramParser: the collection pipeline.                      *)
(*                                                                         *)
(* A scraped text (get_text(strip=True)) is the text of the tag, trimmed.  *)
(* A url is the sequence of its parts: the base and the path parts.        *)
(***************************************************************************)
\* self.gov_keywords
gov_keywords ==
    <<<<"cy-g", "cy-o", "cy-s", "cy-u", "cy-d", "cy-a", "cy-r", "cy-s", "cy-t", "cy-v",
          "cy-e", "cy-n", "cy-n", "cy-y", "cy-j">>,
      <<"cy-f", "cy-e", "cy-d", "cy-e", "cy-r", "cy-a", "cy-l", "cy-soft", "cy-n",
          "cy-y", "cy-j">>,
      <<"cy-n", "cy-a", "cy-c", "cy-i", "cy-o", "cy-n", "cy-a", "cy-l", "cy-soft",
          "cy-n", "cy-y", "cy-j">>,
      <<"cy-r", "cy-o", "cy-s", "cy-s", "cy-i", "cy-j", "cy-s", "cy-k", "cy-i", "cy-j">>,
      <<"cy-r", "cy-f">>,
      <<"cy-r", ".", "cy-f", ".">>,
      <<"cy-m", "cy-i", "cy-n", "cy-i", "cy-s", "cy-t", "cy-e", "cy-r", "cy-s", "cy-t",
          "cy-v", "cy-o">>,
      <<"cy-m", "cy-v", "cy-d">>,
      <<"cy-m", "cy-ch", "cy-s">>>>

\* the capital Cyrillic letters and, at the same places, their small letters
CyrUpper ==
    <<"cy-A", "cy-B", "cy-V", "cy-G", "cy-D", "cy-E", "cy-YO", "cy-ZH", "cy-Z", "cy-I",
      "cy-J", "cy-K", "cy-L", "cy-M", "cy-N", "cy-O", "cy-P", "cy-R", "cy-S", "cy-T",
      "cy-U", "cy-F", "cy-H", "cy-C", "cy-CH", "cy-SH", "cy-SHCH", "cy-HARD", "cy-Y",
      "cy-SOFT", "cy-EH", "cy-YU", "cy-YA">>

CyrLower ==
    <<"cy-a", "cy-b", "cy-v", "cy-g", "cy-d", "cy-e", "cy-yo", "cy-zh", "cy-z", "cy-i",
      "cy-j", "cy-k", "cy-l", "cy-m", "cy-n", "cy-o", "cy-p", "cy-r", "cy-s", "cy-t",
      "cy-u", "cy-f", "cy-h", "cy-c", "cy-ch", "cy-sh", "cy-shch", "cy-hard", "cy-y",
      "cy-soft", "cy-eh", "cy-yu", "cy-ya">>

\* real_institutions['Vysshee']: name, region, program url
RealInstitutionsVO ==
    <<[inst_name |->
          <<"cy-M", "cy-o", "cy-s", "cy-k", "cy-o", "cy-v", "cy-s", "cy-k", "cy-i",
            "cy-j", " ", "cy-g", "cy-o", "cy-s", "cy-u", "cy-d", "cy-a", "cy-r", "cy-s",
            "cy-t", "cy-v", "cy-e", "cy-n", "cy-n", "cy-y", "cy-j", " ", "cy-u", "cy-n",
            "cy-i", "cy-v", "cy-e", "cy-r", "cy-s", "cy-i", "cy-t", "cy-e", "cy-t">>,
       region |-> <<"Moskva">>,
       program_url |-> <<"https://www.msu.ru/en/education/programmes/bachelor/informatics-and-computer-engineering.html">>],
      [inst_name |->
          <<"cy-S", "cy-a", "cy-n", "cy-k", "cy-t", "-", "cy-P", "cy-e", "cy-t", "cy-e",
            "cy-r", "cy-b", "cy-u", "cy-r", "cy-g", "cy-s", "cy-k", "cy-i", "cy-j", " ",
            "cy-g", "cy-o", "cy-s", "cy-u", "cy-d", "cy-a", "cy-r", "cy-s", "cy-t",
            "cy-v", "cy-e", "cy-n", "cy-n", "cy-y", "cy-j", " ", "cy-u", "cy-n", "cy-i",
            "cy-v", "cy-e", "cy-r", "cy-s", "cy-i", "cy-t", "cy-e", "cy-t">>,
       region |-> <<"Sankt-Peterburg">>,
       program_url |-> <<"https://spbu.ru/education/programmes/bachelor/computer-science">>],
      [inst_name |->
          <<"cy-N", "cy-o", "cy-v", "cy-o", "cy-s", "cy-i", "cy-b", "cy-i", "cy-r",
            "cy-s", "cy-k", "cy-i", "cy-j", " ", "cy-g", "cy-o", "cy-s", "cy-u", "cy-d",
            "cy-a", "cy-r", "cy-s", "cy-t", "cy-v", "cy-e", "cy-n", "cy-n", "cy-y",
            "cy-j", " ", "cy-u", "cy-n", "cy-i", "cy-v", "cy-e", "cy-r", "cy-s", "cy-i",
            "cy-t", "cy-e", "cy-t">>,
       region |-> <<"Novosibirsk">>,
       program_url |-> <<"https://nsu.ru/education/programs/undergraduate/computer-science">>],
      [inst_name |->
          <<"cy-U", "cy-r", "cy-a", "cy-l", "cy-soft", "cy-s", "cy-k", "cy-i", "cy-j",
            " ", "cy-f", "cy-e", "cy-d", "cy-e", "cy-r", "cy-a", "cy-l", "cy-soft",
            "cy-n", "cy-y", "cy-j", " ", "cy-u", "cy-n", "cy-i", "cy-v", "cy-e", "cy-r",
            "cy-s", "cy-i", "cy-t", "cy-e", "cy-t">>,
       region |-> <<"Ekaterinburg">>,
       program_url |-> <<"https://urfu.ru/education/programmes/bachelor/informatics/">>],
      [inst_name |->
          <<"cy-K", "cy-a", "cy-z", "cy-a", "cy-n", "cy-s", "cy-k", "cy-i", "cy-j", " ",
            "cy-f", "cy-e", "cy-d", "cy-e", "cy-r", "cy-a", "cy-l", "cy-soft", "cy-n",
            "cy-y", "cy-j", " ", "cy-u", "cy-n", "cy-i", "cy-v", "cy-e", "cy-r", "cy-s",
            "cy-i", "cy-t", "cy-e", "cy-t">>,
       region |-> <<"Kazansoft">>,
       program_url |-> <<"https://kpfu.ru/education/programmes/bachelor/informatics">>],
      [inst_name |->
          <<"cy-N", "cy-a", "cy-c", "cy-i", "cy-o", "cy-n", "cy-a", "cy-l", "cy-soft",
            "cy-n", "cy-y", "cy-j", " ", "cy-i", "cy-s", "cy-s", "cy-l", "cy-e", "cy-d",
            "cy-o", "cy-v", "cy-a", "cy-t", "cy-e", "cy-l", "cy-soft", "cy-s", "cy-k",
            "cy-i", "cy-j", " ", "cy-ya", "cy-d", "cy-e", "cy-r", "cy-n", "cy-y", "cy-j",
            " ", "cy-u", "cy-n", "cy-i", "cy-v", "cy-e", "cy-r", "cy-s", "cy-i", "cy-t",
            "cy-e", "cy-t", " ", "cy-M", "cy-I", "cy-F", "cy-I">>,
       region |-> <<"Moskva">>,
       program_url |-> <<"https://mephi.ru/education/specialties/09.03.01">>],
      [inst_name |->
          <<"cy-M", "cy-o", "cy-s", "cy-k", "cy-o", "cy-v", "cy-s", "cy-k", "cy-i",
            "cy-j", " ", "cy-a", "cy-v", "cy-i", "cy-a", "cy-c", "cy-i", "cy-o", "cy-n",
            "cy-n", "cy-y", "cy-j", " ", "cy-i", "cy-n", "cy-s", "cy-t", "cy-i", "cy-t",
            "cy-u", "cy-t">>,
       region |-> <<"Moskva">>,
       program_url |-> <<"https://mai.ru/education/specialities/bachelor/09.03.01">>],
      [inst_name |->
          <<"cy-M", "cy-o", "cy-s", "cy-k", "cy-o", "cy-v", "cy-s", "cy-k", "cy-i",
            "cy-j", " ", "cy-i", "cy-n", "cy-s", "cy-t", "cy-i", "cy-t", "cy-u", "cy-t",
            " ", "cy-eh", "cy-l", "cy-e", "cy-k", "cy-t", "cy-r", "cy-o", "cy-n", "cy-i",
            "cy-k", "cy-i", " ", "cy-i", " ", "cy-m", "cy-a", "cy-t", "cy-e", "cy-m",
            "cy-a", "cy-t", "cy-i", "cy-k", "cy-i", " ", "cy-N", "cy-I", "cy-U", " ",
            "cy-V", "cy-SH", "cy-EH">>,
       region |-> <<"Moskva">>,
       program_url |-> <<"https://hse.ru/ba/infocomp/">>],
      [inst_name |->
          <<"cy-S", "cy-a", "cy-m", "cy-a", "cy-r", "cy-s", "cy-k", "cy-i", "cy-j", " ",
            "cy-n", "cy-a", "cy-c", "cy-i", "cy-o", "cy-n", "cy-a", "cy-l", "cy-soft",
            "cy-n", "cy-y", "cy-j", " ", "cy-i", "cy-s", "cy-s", "cy-l", "cy-e", "cy-d",
            "cy-o", "cy-v", "cy-a", "cy-t", "cy-e", "cy-l", "cy-soft", "cy-s", "cy-k",
            "cy-i", "cy-j", " ", "cy-u", "cy-n", "cy-i", "cy-v", "cy-e", "cy-r", "cy-s",
            "cy-i", "cy-t", "cy-e", "cy-t">>,
       region |-> <<"Samara">>,
       program_url |-> <<"https://ssau.ru/education/program/456">>],
      [inst_name |->
          <<"cy-N", "cy-a", "cy-c", "cy-i", "cy-o", "cy-n", "cy-a", "cy-l", "cy-soft",
            "cy-n", "cy-y", "cy-j", " ", "cy-i", "cy-s", "cy-s", "cy-l", "cy-e", "cy-d",
            "cy-o", "cy-v", "cy-a", "cy-t", "cy-e", "cy-l", "cy-soft", "cy-s", "cy-k",
            "cy-i", "cy-j", " ", "cy-u", "cy-n", "cy-i", "cy-v", "cy-e", "cy-r", "cy-s",
            "cy-i", "cy-t", "cy-e", "cy-t", " ", "cy-M", "cy-EH", "cy-I">>,
       region |-> <<"Moskva">>,
       program_url |-> <<"https://mpei.ru/education/structure/it/programs/bachelor/09.03.01">>]>>

\* real_institutions['SPO']: name, region, program url
RealInstitutionsSPO ==
    <<[inst_name |->
          <<"cy-M", "cy-o", "cy-s", "cy-k", "cy-o", "cy-v", "cy-s", "cy-k", "cy-i",
            "cy-j", " ", "cy-k", "cy-o", "cy-l", "cy-l", "cy-e", "cy-d", "cy-zh", " ",
            "cy-i", "cy-n", "cy-f", "cy-o", "cy-r", "cy-m", "cy-a", "cy-t", "cy-i",
            "cy-k", "cy-i", " ", "cy-i", " ", "cy-p", "cy-r", "cy-a", "cy-v", "cy-a">>,
       region |-> <<"Moskva">>,
       program_url |-> <<"https://www.mkip.ru/edu/specialities/09.02.07">>],
      [inst_name |->
          <<"cy-G", "cy-B", "cy-P", "cy-O", "cy-U", " ", "cy-M", "cy-o", "cy-s", "cy-k",
            "cy-o", "cy-v", "cy-s", "cy-k", "cy-i", "cy-j", " ", "cy-t", "cy-e", "cy-h",
            "cy-n", "cy-o", "cy-l", "cy-o", "cy-g", "cy-i", "cy-ch", "cy-e", "cy-s",
            "cy-k", "cy-i", "cy-j", " ", "cy-k", "cy-o", "cy-l", "cy-l", "cy-e", "cy-d",
            "cy-zh">>,
       region |-> <<"Moskva">>,
       program_url |-> <<"https://www.mtc-edu.ru/obuchenie/specialnosti/">>],
      [inst_name |->
          <<"cy-K", "cy-o", "cy-l", "cy-l", "cy-e", "cy-d", "cy-zh", " ", "cy-p", "cy-r",
            "cy-o", "cy-g", "cy-r", "cy-a", "cy-m", "cy-m", "cy-n", "cy-y", "cy-h", " ",
            "cy-s", "cy-i", "cy-s", "cy-t", "cy-e", "cy-m", " ", "cy-i", " ", "cy-i",
            "cy-n", "cy-f", "cy-o", "cy-r", "cy-m", "cy-a", "cy-c", "cy-i", "cy-o",
            "cy-n", "cy-n", "cy-y", "cy-h", " ", "cy-t", "cy-e", "cy-h", "cy-n", "cy-o",
            "cy-l", "cy-o", "cy-g", "cy-i", "cy-j">>,
       region |-> <<"Moskva">>,
       program_url |-> <<"https://www.kpsit.ru/abiturientam/specialities/">>],
      [inst_name |->
          <<"cy-S", "cy-a", "cy-n", "cy-k", "cy-t", "-", "cy-P", "cy-e", "cy-t", "cy-e",
            "cy-r", "cy-b", "cy-u", "cy-r", "cy-g", "cy-s", "cy-k", "cy-i", "cy-j", " ",
            "cy-k", "cy-o", "cy-l", "cy-l", "cy-e", "cy-d", "cy-zh", " ", "cy-i", "cy-n",
            "cy-f", "cy-o", "cy-r", "cy-m", "cy-a", "cy-c", "cy-i", "cy-o", "cy-n",
            "cy-n", "cy-y", "cy-h", " ", "cy-t", "cy-e", "cy-h", "cy-n", "cy-o", "cy-l",
            "cy-o", "cy-g", "cy-i", "cy-j">>,
       region |-> <<"Sankt-Peterburg">>,
       program_url |-> <<"https://www.spbit.ru/for-applicants/specialties/">>],
      [inst_name |->
          <<"cy-K", "cy-o", "cy-l", "cy-l", "cy-e", "cy-d", "cy-zh", " ", "cy-s", "cy-v",
            "cy-ya", "cy-z", "cy-i", " ", "cy-i", " ", "cy-i", "cy-n", "cy-f", "cy-o",
            "cy-r", "cy-m", "cy-a", "cy-t", "cy-i", "cy-k", "cy-i", " ", "cy-N", "cy-U",
            "cy-T">>,
       region |-> <<"Moskva">>,
       program_url |-> <<"https://www.cskit.ru/abitur/napravleniya/">>],
      [inst_name |->
          <<"cy-M", "cy-o", "cy-s", "cy-k", "cy-o", "cy-v", "cy-s", "cy-k", "cy-i",
            "cy-j", " ", "cy-k", "cy-o", "cy-l", "cy-l", "cy-e", "cy-d", "cy-zh", " ",
            "cy-p", "cy-r", "cy-i", "cy-k", "cy-l", "cy-a", "cy-d", "cy-n", "cy-o",
            "cy-j", " ", "cy-r", "cy-a", "cy-d", "cy-i", "cy-o", "cy-eh", "cy-l", "cy-e",
            "cy-k", "cy-t", "cy-r", "cy-o", "cy-n", "cy-i", "cy-k", "cy-i", " ", "cy-i",
            " ", "cy-i", "cy-n", "cy-f", "cy-o", "cy-r", "cy-m", "cy-a", "cy-t", "cy-i",
            "cy-k", "cy-i">>,
       region |-> <<"Moskva">>,
       program_url |-> <<"https://www.mcapri.ru/specialities/">>],
      [inst_name |->
          <<"cy-K", "cy-o", "cy-l", "cy-l", "cy-e", "cy-d", "cy-zh", " ", "cy-i", "cy-n",
            "cy-f", "cy-o", "cy-r", "cy-m", "cy-a", "cy-t", "cy-i", "cy-k", "cy-i", " ",
            "cy-i", " ", "cy-p", "cy-r", "cy-o", "cy-g", "cy-r", "cy-a", "cy-m", "cy-m",
            "cy-i", "cy-r", "cy-o", "cy-v", "cy-a", "cy-n", "cy-i", "cy-ya">>,
       region |-> <<"Moskva">>,
       program_url |-> <<"https://www.kipcollege.ru/obuchenie/specialnosti/">>],
      [inst_name |->
          <<"cy-K", "cy-o", "cy-l", "cy-l", "cy-e", "cy-d", "cy-zh", " ", "cy-i", "cy-n",
            "cy-f", "cy-o", "cy-r", "cy-m", "cy-a", "cy-c", "cy-i", "cy-o", "cy-n",
            "cy-n", "cy-y", "cy-h", " ", "cy-t", "cy-e", "cy-h", "cy-n", "cy-o", "cy-l",
            "cy-o", "cy-g", "cy-i", "cy-j", " ", "cy-i", " ", "cy-u", "cy-p", "cy-r",
            "cy-a", "cy-v", "cy-l", "cy-e", "cy-n", "cy-i", "cy-ya">>,
       region |-> <<"Moskva">>,
       program_url |-> <<"https://www.kitumos.ru/specialities/">>],
      [inst_name |->
          <<"cy-S", "cy-a", "cy-n", "cy-k", "cy-t", "-", "cy-P", "cy-e", "cy-t", "cy-e",
            "cy-r", "cy-b", "cy-u", "cy-r", "cy-g", "cy-s", "cy-k", "cy-i", "cy-j", " ",
            "cy-k", "cy-o", "cy-l", "cy-l", "cy-e", "cy-d", "cy-zh", " ", "cy-u", "cy-p",
            "cy-r", "cy-a", "cy-v", "cy-l", "cy-e", "cy-n", "cy-i", "cy-ya", " ", "cy-i",
            " ", "cy-eh", "cy-k", "cy-o", "cy-n", "cy-o", "cy-m", "cy-i", "cy-k", "cy-i">>,
       region |-> <<"Sankt-Peterburg">>,
       program_url |-> <<"https://www.spbce.ru/education/specialties/">>],
      [inst_name |->
          <<"cy-R", "cy-o", "cy-s", "cy-t", "cy-o", "cy-v", "cy-s", "cy-k", "cy-i",
            "cy-j", " ", "cy-k", "cy-o", "cy-l", "cy-l", "cy-e", "cy-d", "cy-zh", " ",
            "cy-i", "cy-n", "cy-f", "cy-o", "cy-r", "cy-m", "cy-a", "cy-c", "cy-i",
            "cy-o", "cy-n", "cy-n", "cy-y", "cy-h", " ", "cy-t", "cy-e", "cy-h", "cy-n",
            "cy-o", "cy-l", "cy-o", "cy-g", "cy-i", "cy-j">>,
       region |-> <<"Rostov-na-Donu">>,
       program_url |-> <<"https://www.rcit.ru/obuchenie/specialnosti/">>]>>

\* str.lower(): the capital Cyrillic letters are the only cased characters here
lower_char(c) ==
    IF \E i \in DOMAIN CyrUpper : CyrUpper[i] = c
    THEN CyrLower[CHOOSE i \in DOMAIN CyrUpper : CyrUpper[i] = c]
    ELSE c

lower(s) == [i \in DOMAIN s |-> lower_char(s[i])]

is_government_institution(name) ==
    LET name_lower == lower(name)
    IN  \E i \in DOMAIN gov_keywords : Contains(name_lower, gov_keywords[i])

\* the education levels: 'Высшее' and 'СПО'
Vysshee == <<"Vysshee">>
SPO == Marker

\* random.randint(5, 50)
SeatsLo == 5
SeatsHi == 50

\* the outcomes of three successive random.randint(5, 50) calls that are drawn
Draws == {<<SeatsLo, SeatsHi, 17>>, <<SeatsHi, SeatsLo, SeatsLo>>}

\* the specialty codes of the target lists
Code1 == <<"09.03.01">>
Code2 == <<"09.02.07">>
Code9 == <<"99.99.99">>

\* program_names.get(fgos_code, f'Программа по специальности {fgos_code}')
program_names(fgos_code) ==
    CASE fgos_code = Code1 -> <<"Prikladnaya informatika">>
      [] fgos_code = Code2 -> <<"Programmirovanie v kompyuternyh sistemah">>
      [] OTHER -> <<"Programma po specialnosti ">> \o fgos_code

\* real_institutions.get(education_level, [])
real_institutions(education_level) ==
    CASE education_level = Vysshee -> RealInstitutionsVO
      [] education_level = SPO -> RealInstitutionsSPO
      [] OTHER -> <<>>

\* institutions[:3]
FirstThree(institutions) ==
    SubSeq(institutions, 1, IF Len(institutions) < 3 THEN Len(institutions) ELSE 3)

\* the synthetic records taken from the next three institutions once the
\* accumulator holds records
parse_alternative_source_next(fgos_code, macrogroup_id, macrogroup_name, education_level, base_len, draws) ==
    LET all == real_institutions(education_level)
        institutions == IF base_len = 0 \/ Len(all) < 6 THEN FirstThree(all)
                        ELSE SubSeq(all, 4, 6)
        chosen == SelectSeq(institutions,
                            LAMBDA inst : is_government_institution(inst.inst_name))
    IN  [j \in 1..Len(chosen) |->
            [id |-> base_len + j,
             macrogroup_id |-> macrogroup_id,
             macrogroup_name |-> macrogroup_name,
             education_level |-> education_level,
             fgos_code |-> fgos_code,
             program_name |-> program_names(fgos_code),
             institution_name |-> chosen[j].inst_name,
             region |-> chosen[j].region,
             budget_seats |-> draws[j],
             url |-> chosen[j].program_url]]

\* parse_alternative_source: the synthetic records for a code; base_len is
\* len(self.data) at the call and draws the random seat counts
parse_alternative_source(fgos_code, macrogroup_id, macrogroup_name, education_level, base_len, draws) ==
    LET institutions == FirstThree(real_institutions(education_level))
        chosen == SelectSeq(institutions,
                            LAMBDA inst : is_government_institution(inst.inst_name))
    IN  [j \in 1..Len(chosen) |->
            [id |-> base_len + j,
             macrogroup_id |-> macrogroup_id,
             macrogroup_name |-> macrogroup_name,
             education_level |-> education_level,
             fgos_code |-> fgos_code,
             program_name |-> program_names(fgos_code),
             institution_name |-> chosen[j].inst_name,
             region |-> chosen[j].region,
             budget_seats |-> draws[j],
             url |-> chosen[j].program_url]]

\* the path parts that hold 'moscow'
MoscowParts == {"/moscow"}

\* extract_region_from_url
extract_region_from_url(url) ==
    IF \E i \in DOMAIN url : url[i] \in MoscowParts THEN <<"Moskva">> ELSE <<"Rossiya">>

\* urljoin(base_url, href)
urljoin(base_url, href) == <<base_url>> \o href

\* one listing entry: the tags found in it and their texts; raises says that
\* handling the entry raises an exception
Element(has_name, name, has_inst, inst, has_budget, budget, has_href, href, raises) ==
    [has_name |-> has_name, name |-> name, has_inst |-> has_inst, inst |-> inst,
     has_budget |-> has_budget, budget |-> budget, has_href |-> has_href, href |-> href,
     raises |-> raises]

ElGood ==
    Element(TRUE, <<"Fizika">>, TRUE, <<"cy-M", "cy-V", "cy-D">>,
            TRUE, <<"1", "2", " ", "cy-m">>, TRUE, <<"/vuz", "/moscow">>, FALSE)
ElNoUrl ==
    Element(TRUE, <<"Himiya">>, TRUE, <<"cy-SH", "cy-a", "cy-r", "cy-f">>,
            TRUE, <<"cy-m", " ", "7">>, FALSE, <<>>, FALSE)
ElPrivate ==
    Element(TRUE, <<"Pravo">>, TRUE, <<"cy-V", "cy-SH", "cy-EH">>,
            TRUE, <<"3", "0">>, TRUE, <<"/vuz">>, FALSE)
ElNoSeats ==
    Element(TRUE, <<"Pravo">>, TRUE, <<"cy-M", "cy-CH", "cy-S">>,
            TRUE, <<"0">>, TRUE, <<"/vuz">>, FALSE)
ElNoInst ==
    Element(TRUE, <<"Pravo">>, FALSE, <<>>, FALSE, <<>>, TRUE, <<"/vuz">>, FALSE)
ElRaises ==
    Element(TRUE, <<"Pravo">>, TRUE, <<"cy-M", "cy-V", "cy-D">>,
            TRUE, <<"9">>, TRUE, <<"/vuz">>, TRUE)

\* the listings a successful search answers with
Pages == {<<>>,
          <<ElGood>>,
          <<ElPrivate, ElRaises, ElNoUrl>>,
          <<ElGood, ElNoSeats, ElNoInst, ElGood>>}

\* an entry kept whatever its number of budget seats
keep_any_seats(el, budget_seats) ==
    /\ ~el.raises
    /\ el.has_name /\ el.has_inst
    /\ is_government_institution(el.inst)

\* the tests an entry passes before it is appended: handling it raised
\* nothing, it has a name and an institution, the institution is a
\* government one and it has budget seats
keep(el, budget_seats) ==
    /\ ~el.raises
    /\ el.has_name /\ el.has_inst
    /\ is_government_institution(el.inst)
    /\ budget_seats > 0

\* the body of the for loop over program_elements: the programs of a listing
RECURSIVE ScrapeElements(_, _, _, _, _, _, _, _)
ScrapeElements(elements, base_url, fgos_code, macrogroup_id, macrogroup_name, education_level, base_len, programs) ==
    IF elements = <<>> THEN programs
    ELSE LET el == Head(elements)
             numbers == IF el.has_budget THEN findall_digits(el.budget) ELSE <<>>
             budget_seats == IF numbers # <<>> THEN int(numbers[1]) ELSE 0
             url == IF el.has_href THEN urljoin(base_url, el.href) ELSE <<>>
             region == IF url # <<>> THEN extract_region_from_url(url) ELSE <<"Rossiya">>
             program_data ==
                 [id |-> base_len + Len(programs) + 1,
                  macrogroup_id |-> macrogroup_id,
                  macrogroup_name |-> macrogroup_name,
                  education_level |-> education_level,
                  fgos_code |-> fgos_code,
                  program_name |-> el.name,
                  institution_name |-> el.inst,
                  region |-> region,
                  budget_seats |-> budget_seats,
                  url |-> url]
         IN  ScrapeElements(Tail(elements), base_url, fgos_code, macrogroup_id,
                            macrogroup_name, education_level, base_len,
                            IF keep(el, budget_seats) THEN Append(programs, program_data)
                            ELSE programs)

\* parse_vuzopedia_vuzi, parse_vuzopedia_colleges and parse_postupi_online on
\* a search that answered with a listing
parse_listing(source, elements, fgos_code, macrogroup_id, macrogroup_name, education_level, base_len) ==
    ScrapeElements(elements,
                   IF source = "vuzopedia" THEN "https://vuzopedia.ru"
                   ELSE "https://postupi.online",
                   fgos_code, macrogroup_id, macrogroup_name, education_level,
                   base_len, <<>>)

\* the target lists: macro-groups in file order
Group(id, name, vo_codes, spo_codes) ==
    [id |-> id, name |-> name, vo_codes |-> vo_codes, spo_codes |-> spo_codes]

TargetLists ==
    {<<>>,
     <<Group("1", <<"IT">>, <<Code1>>, <<Code2>>)>>,
     <<Group("2", <<"Energetika">>, <<>>, <<Code2>>)>>,
     <<Group("1", <<"IT">>, <<Code1, Code9>>, <<>>), Group("2", <<"Energetika">>, <<>>, <<Code2>>)>>,
     <<Group("1", <<"IT">>, <<Code1>>, <<>>), Group("2", <<"Energetika">>, <<Code1>>, <<>>)>>}

\* educational_programs_2024.csv before the run writes it
NoCsv == [state |-> "absent", rows |-> <<>>]

\* the values of min_programs
MinChoices == {0, 1, 4, MaxMinPrograms}

PVarsIdle ==
    /\ target_list = <<>>
    /\ min_programs = 0
    /\ self_data = <<>>
    /\ stats = [vuzopedia |-> 0, postupi_online |-> 0, uchebaru |-> 0]
    /\ ppc = "idle"
    /\ grp = 0
    /\ phase = "vo"
    /\ kpos = 0
    /\ attempts = <<>>
    /\ df = <<>>
    /\ csvFile = NoCsv


(***************************************************************************)
(* main() of generate_programs.py                                          *)
(***************************************************************************)
required_fields == <<"program_name", "url">>

\* row[field].strip() raises AttributeError when the cell is None
RequiredRaises(row) ==
    \E j \in DOMAIN required_fields :
        required_fields[j] \in DOMAIN row /\ row[required_fields[j]].none

FieldMissing(row, field) ==
    field \notin DOMAIN row \/ strip(row[field].s) = <<>>

\* missing_fields, in the order of required_fields
missing_fields(row) ==
    (IF FieldMissing(row, required_fields[1]) THEN <<required_fields[1]>> ELSE <<>>)
    \o (IF FieldMissing(row, required_fields[2]) THEN <<required_fields[2]>> ELSE <<>>)

\* the absent file taken for an empty table
LoadAbsentReturns ==
    /\ pc = "start"
    /\ tableCsv.state = "absent"
    /\ stdout' = stdout \o <<Msg("loading"), Msg("empty_table")>>
    /\ exit' = "0"
    /\ pc' = "returned"
    /\ UNCHANGED <<tableCsv, programsJs, data, idx, js_programs, cvars, pvars>>

\* open() raises FileNotFoundError
LoadAbsent ==
    /\ pc = "start"
    /\ tableCsv.state = "absent"
    /\ stdout' = stdout \o <<Msg("loading"), Msg("not_found")>>
    /\ exit' = "1"
    /\ pc' = "exited"
    /\ UNCHANGED <<tableCsv, programsJs, data, idx, js_programs, cvars, pvars>>

\* open(), read() or the csv reader raises another exception
LoadUnreadable ==
    /\ pc = "start"
    /\ tableCsv.state = "unreadable"
    /\ stdout' = stdout \o <<Msg("loading"), Msg("read_error")>>
    /\ exit' = "1"
    /\ pc' = "exited"
    /\ UNCHANGED <<tableCsv, programsJs, data, idx, js_programs, cvars, pvars>>

\* the file is read and parsed; an empty table returns
LoadOk ==
    /\ pc = "start"
    /\ tableCsv.state = "ok"
    /\ data' = [i \in DOMAIN tableCsv.lines |-> DictRow(tableCsv.header, tableCsv.lines[i])]
    /\ IF data' = <<>>
       THEN /\ stdout' = stdout \o <<Msg("loading"), Msg("empty_table")>>
            /\ exit' = "0"
            /\ pc' = "returned"
       ELSE /\ stdout' = stdout \o <<Msg("loading"), Msg("loaded")>>
            /\ exit' = exit
            /\ pc' = "loop"
    /\ UNCHANGED <<tableCsv, programsJs, idx, js_programs, cvars, pvars>>

\* one turn of the for loop: the required-field test or the card raises
RowRaise ==
    /\ pc = "loop"
    /\ idx < Len(data)
    /\ LET row == data[idx + 1]
       IN  \/ RequiredRaises(row)
           \/ ~RequiredRaises(row) /\ missing_fields(row) = <<>> /\ CardRaises(row)
    /\ exit' = "traceback"
    /\ pc' = "crashed"
    /\ UNCHANGED <<tableCsv, programsJs, data, idx, js_programs, stdout, cvars, pvars>>

\* one turn of the for loop: the row is skipped with a warning
RowSkip ==
    /\ pc = "loop"
    /\ idx < Len(data)
    /\ LET row == data[idx + 1]
       IN  /\ ~RequiredRaises(row)
           /\ missing_fields(row) # <<>>
           /\ stdout' = Append(stdout, [msg |-> "warning", row |-> idx + 1,
                                        fields |-> missing_fields(row)])
    /\ idx' = idx + 1
    /\ UNCHANGED <<tableCsv, programsJs, pc, data, js_programs, exit, cvars, pvars>>

\* the row's card is appended unless the same card is already there
RowAcceptOnce ==
    /\ pc = "loop"
    /\ idx < Len(data)
    /\ LET row == data[idx + 1]
       IN  /\ ~RequiredRaises(row)
           /\ missing_fields(row) = <<>>
           /\ ~CardRaises(row)
           /\ js_programs' =
                 IF generate_program_card(row) \in Range(js_programs) THEN js_programs
                 ELSE Append(js_programs, generate_program_card(row))
    /\ idx' = idx + 1
    /\ UNCHANGED <<tableCsv, programsJs, pc, data, stdout, exit, cvars, pvars>>

\* one turn of the for loop: the row's card is appended
RowAccept ==
    /\ pc = "loop"
    /\ idx < Len(data)
    /\ LET row == data[idx + 1]
       IN  /\ ~RequiredRaises(row)
           /\ missing_fields(row) = <<>>
           /\ ~CardRaises(row)
           /\ js_programs' = Append(js_programs, generate_program_card(row))
    /\ idx' = idx + 1
    /\ UNCHANGED <<tableCsv, programsJs, pc, data, stdout, exit, cvars, pvars>>

\* after the loop: nothing was generated
NoneGenerated ==
    /\ pc = "loop"
    /\ idx = Len(data)
    /\ js_programs = <<>>
    /\ stdout' = Append(stdout, Msg("none_generated"))
    /\ exit' = "0"
    /\ pc' = "returned"
    /\ UNCHANGED <<tableCsv, programsJs, data, idx, js_programs, cvars, pvars>>

\* after the loop: programs.js is written
Save ==
    /\ pc = "loop"
    /\ idx = Len(data)
    /\ js_programs # <<>>
    /\ \E d \in Dates :
        programsJs' = [state |-> "written", date |-> d, body |-> js_programs]
    /\ stdout' = stdout \o <<Msg("saved"), Msg("count")>>
    /\ exit' = "0"
    /\ pc' = "returned"
    /\ UNCHANGED <<tableCsv, data, idx, js_programs, cvars, pvars>>

\* after the loop: open("programs.js", "w") raises OSError
SaveFail ==
    /\ pc = "loop"
    /\ idx = Len(data)
    /\ js_programs # <<>>
    /\ exit' = "traceback"
    /\ pc' = "crashed"
    /\ UNCHANGED <<tableCsv, programsJs, data, idx, js_programs, stdout, cvars, pvars>>

Init ==
    /\ \/ tableCsv \in {AbsentFile, UnreadableFile, EmptyFile}
       \/ IsTable(tableCsv)
    /\ programsJs \in {NoProgramsJs, OldProgramsJs}
    /\ pc = "start"
    /\ data = <<>>
    /\ idx = 0
    /\ js_programs = <<>>
    /\ stdout = <<>>
    /\ exit = "running"
    /\ crow = <<>>
    /\ cres = Pending
    /\ PVarsIdle

Next ==
    \/ LoadAbsent
    \/ LoadUnreadable
    \/ LoadOk
    \/ RowRaise
    \/ RowSkip
    \/ RowAccept
    \/ NoneGenerated
    \/ Save
    \/ SaveFail

Spec == Init /\ [][Next]_vars

(***************************************************************************)
(* generate_program_card applied to one row.                               *)
(***************************************************************************)
CardReturn ==
    /\ cres.state = "pending"
    /\ ~CardRaises(crow)
    /\ cres' = [state |-> "returned", obj |-> generate_program_card(crow)]
    /\ UNCHANGED <<crow, tvars, pvars>>

CardRaise ==
    /\ cres.state = "pending"
    /\ CardRaises(crow)
    /\ cres' = [state |-> "raised", obj |-> <<>>]
    /\ UNCHANGED <<crow, tvars, pvars>>

InitCard ==
    /\ tableCsv = AbsentFile
    /\ programsJs = NoProgramsJs
    /\ pc = "idle"
    /\ data = <<>>
    /\ idx = 0
    /\ js_programs = <<>>
    /\ stdout = <<>>
    /\ exit = "running"
    /\ IsCardRow(crow)
    /\ cres = Pending
    /\ PVarsIdle

NextCard == CardReturn \/ CardRaise

SpecCard == InitCard /\ [][NextCard]_vars

(***************************************************************************)
(* Claims about the transform pipeline and the record normalizer.          *)
(***************************************************************************)
\* a required field of the row is present and non-blank after trimming
HasField(row, field) ==
    /\ field \in DOMAIN row
    /\ ~row[field].none
    /\ strip(row[field].s) # <<>>

RowValid(row) == HasField(row, "program_name") /\ HasField(row, "url")

ValidRows == {i \in DOMAIN data : RowValid(data[i])}

Warned(i) == \E k \in DOMAIN stdout : stdout[k].msg = "warning" /\ stdout[k].row = i

Printed(m) == \E k \in DOMAIN stdout : stdout[k].msg = m

Ended == exit # "running"

\* C1: when a run over a readable table has ended, every row that lacks a
\* present, non-blank program_name or url was skipped with a warning, the loop
\* went through every row, and the rows that contributed a card are exactly
\* the rows that have both fields.
C1_Claim ==
    (Ended /\ tableCsv.state = "ok" /\ data # <<>>) =>
        /\ \A i \in DOMAIN data : ~RowValid(data[i]) => Warned(i)
        /\ \A i \in DOMAIN data : RowValid(data[i]) => ~Warned(i)
        /\ idx = Len(data)
        /\ Len(js_programs) = Cardinality(ValidRows)

\* the raw budget_seats text of the row handed to the card
RawText(row, key) == get(row, key, Str(<<>>)).s

\* places as the claim states it, on the text of the row
C2_Places(text) ==
    IF findall_digits(text) # <<>> THEN int(findall_digits(text)[1])
    ELSE IF Contains(text, Phrase) THEN 1
    ELSE 0

\* C2: places of the returned card is the first run of decimal digits of the
\* row's budget_seats text; 1 when the text has no digit but has the
\* affirmative phrase; 0 otherwise.
C2_Claim ==
    cres.state = "returned" => cres.obj.places = C2_Places(RawText(crow, "budget_seats"))

\* C3: unless table.csv is absent, the run is never aborted: it does not end
\* with exit status 1 nor with an uncaught exception.
C3_Claim ==
    (Ended /\ tableCsv.state # "absent") => exit = "0"

\* C4: the loop never fails on a row whose program_name and url are
\* non-blank, and the card of such a row carries the placeholders for the
\* columns that are absent or empty.
C4_Claim ==
    /\ (pc = "crashed" /\ idx < Len(data)) => ~RowValid(data[idx + 1])
    /\ (pc = "loop" /\ idx > 0 /\ RowValid(data[idx])) =>
          LET row == data[idx]
              card == js_programs[Len(js_programs)]
          IN  /\ js_programs # <<>>
              /\ strip(RawText(row, "institution_name")) = <<>> => card.institution = <<"Ne ukazan">>
              /\ strip(RawText(row, "region")) = <<>> => card.district = <<"RF">>
              /\ strip(RawText(row, "fgos_code")) = <<>> => card.fgos_code = <<"--">>
              /\ strip(RawText(row, "macrogroup_name")) = <<>> =>
                    /\ card.category = <<"Obshchee">>
                    /\ card.desc = <<"Opisanie programmy zagruzhaetsya...">>

\* the characters HTML reserves
Reserved == {"<", ">", "&", "\"", "'"}

Entities == {<<"&", "a", "m", "p", ";">>, <<"&", "l", "t", ";">>, <<"&", "g", "t", ";">>,
             <<"&", "q", "u", "o", "t", ";">>, <<"&", "#", "x", "2", "7", ";">>}

\* s holds no reserved character but the "&" that opens an entity
NoRawMarkup(s) ==
    \A i \in DOMAIN s :
        /\ s[i] \in Reserved => s[i] = "&"
        /\ s[i] = "&" => \E e \in Entities :
                            i + Len(e) - 1 <= Len(s) /\ SubSeq(s, i, i + Len(e) - 1) = e

\* the number of occurrences of character c in s
RECURSIVE Count(_, _)
Count(s, c) ==
    IF s = <<>> THEN 0 ELSE (IF Head(s) = c THEN 1 ELSE 0) + Count(Tail(s), c)

\* the number of places of s where e starts
Occurrences(s, e) ==
    Cardinality({i \in 1..(Len(s) - Len(e) + 1) : SubSeq(s, i, i + Len(e) - 1) = e})

\* every reserved character of the text is in the field as its entity
AsEntities(text, field) ==
    /\ Occurrences(field, <<"&", "l", "t", ";">>) = Count(text, "<")
    /\ Occurrences(field, <<"&", "g", "t", ";">>) = Count(text, ">")
    /\ Occurrences(field, <<"&", "q", "u", "o", "t", ";">>) = Count(text, "\"")
    /\ Occurrences(field, <<"&", "#", "x", "2", "7", ";">>) = Count(text, "'")
    /\ Occurrences(field, <<"&", "a", "m", "p", ";">>) = Count(text, "&")

\* C5: no string field of a returned card that comes from the row holds a
\* reserved character outside an entity, and each reserved character of the
\* row's text is in the field as its entity.
C5_Escaped ==
    cres.state = "returned" =>
        /\ \A f \in {"title", "institution", "district", "fgos_code", "fgos_name",
                     "category", "desc", "url"} : NoRawMarkup(cres.obj[f])
        /\ AsEntities(strip(RawText(crow, "program_name")), cres.obj.title)
        /\ AsEntities(strip(RawText(crow, "institution_name")), cres.obj.institution)
        /\ AsEntities(strip(RawText(crow, "region")), cres.obj.district)
        /\ AsEntities(strip(RawText(crow, "fgos_code")), cres.obj.fgos_code)
        /\ AsEntities(strip(RawText(crow, "macrogroup_name")), cres.obj.fgos_name)
        /\ AsEntities(strip(RawText(crow, "macrogroup_name")), cres.obj.category)
        /\ AsEntities(strip(RawText(crow, "macrogroup_name")), cres.obj.desc)
        /\ AsEntities(strip(RawText(crow, "url")), cres.obj.url)

\* a card was returned for a row whose program_name holds "<" and a quote
C5_Witness ==
    /\ cres.state = "returned"
    /\ RawText(crow, "program_name") = <<"<", "'">>
    /\ cres.obj.title = <<"&", "l", "t", ";", "&", "#", "x", "2", "7", ";">>

\* C7: the returned card has level SPO and level_readable Kolledzh exactly
\* when the row's education_level text holds the marker, and level VO and
\* level_readable Bakalavriat otherwise, an absent or empty text included.
C7_Level ==
    cres.state = "returned" =>
        IF Contains(RawText(crow, "education_level"), Marker)
        THEN cres.obj.level = <<"SPO">> /\ cres.obj.level_readable = <<"Kolledzh">>
        ELSE cres.obj.level = <<"VO">> /\ cres.obj.level_readable = <<"Bakalavriat">>

\* a card of level SPO was returned for a text with the marker inside it
C7_Witness ==
    /\ cres.state = "returned"
    /\ RawText(crow, "education_level") = <<"a">> \o Marker \o <<" ">>
    /\ cres.obj.level = <<"SPO">>

\* C8: when a run over a readable table with no row, or with no row that
\* has both required fields, has ended, it has reported that and returned,
\* and programs.js is as it was.
C8_Claim ==
    (Ended /\ tableCsv.state = "ok" /\ ValidRows = {}) =>
        /\ exit = "0"
        /\ Printed("empty_table") \/ Printed("none_generated")
        /\ programsJs.state # "written"

\* C9: when table.csv is absent the run reports it and stops with exit
\* status 1: no row is read or processed and programs.js is not written.
C9_AbsentStops ==
    (tableCsv.state = "absent" /\ pc # "start") =>
        /\ exit = "1"
        /\ pc = "exited"
        /\ Printed("not_found")
        /\ data = <<>> /\ idx = 0 /\ js_programs = <<>>
        /\ programsJs.state # "written"

\* the run on an absent table.csv has stopped
C9_Witness ==
    tableCsv.state = "absent" /\ pc = "exited" /\ exit = "1"

(***************************************************************************)
(* parse_all_sources                                                       *)
(***************************************************************************)
InPass == ppc \in {"first", "second"}

CurGroup == target_list[grp]
CurCodes == IF phase = "vo" THEN CurGroup.vo_codes ELSE CurGroup.spo_codes
CurLevel == IF phase = "vo" THEN Vysshee ELSE SPO
Source == IF ppc = "first" THEN "vuzopedia" ELSE "postupi_online"
Tier == IF ppc = "first" THEN "primary" ELSE "secondary"

\* one entry of the log of source attempts: group is the macro-group of the
\* code, n the number of records the tier gave and page the listing a scraper
\* was answered with
Attempt(tier, group, code, level, result, n, page) ==
    [tier |-> tier, group |-> group, code |-> code, level |-> level,
     result |-> result, n |-> n, page |-> page]

\* a pass is left and the Postupi.online pass is run, again and again, as
\* long as the accumulator holds fewer than min_programs records
PassEndRepeat(len) ==
    IF len < min_programs
    THEN ppc' = "second" /\ grp' = 1 /\ phase' = "vo" /\ kpos' = 0
    ELSE ppc' = "build" /\ UNCHANGED <<grp, phase, kpos>>

\* a pass is left: the first one goes on to Postupi.online when the
\* accumulator holds fewer than min_programs records
PassEnd(len) ==
    IF ppc = "first" /\ len < min_programs
    THEN ppc' = "second" /\ grp' = 1 /\ phase' = "vo" /\ kpos' = 0
    ELSE ppc' = "build" /\ UNCHANGED <<grp, phase, kpos>>

\* self.data.extend(programs) without the check that follows it
ExtendUnchecked(programs) ==
    /\ self_data' = self_data \o programs
    /\ kpos' = kpos + 1
    /\ UNCHANGED <<ppc, grp, phase>>

\* self.data.extend(programs) and the check that follows it
Extend(programs) ==
    /\ self_data' = self_data \o programs
    /\ IF Len(self_data \o programs) >= min_programs
       THEN PassEnd(Len(self_data \o programs))
       ELSE kpos' = kpos + 1 /\ UNCHANGED <<ppc, grp, phase>>

\* a listing with nothing usable in it answered by the synthetic records
SourceAnswersOrSynthetic ==
    /\ InPass
    /\ grp <= Len(target_list)
    /\ kpos < Len(CurCodes)
    /\ \E page \in Pages, draws \in Draws :
        LET code == CurCodes[kpos + 1]
            listed == parse_listing(Source, page, code, CurGroup.id, CurGroup.name,
                                    CurLevel, Len(self_data))
            programs == IF listed # <<>> THEN listed
                        ELSE parse_alternative_source(code, CurGroup.id, CurGroup.name,
                                                      CurLevel, Len(self_data), draws)
        IN  /\ Extend(programs)
            /\ stats' = [stats EXCEPT ![Source] = @ + Len(listed)]
            /\ attempts' = attempts \o
                (IF listed # <<>>
                 THEN <<Attempt(Tier, CurGroup.id, code, CurLevel, "listing", Len(listed), page)>>
                 ELSE <<Attempt(Tier, CurGroup.id, code, CurLevel, "listing", 0, page),
                        Attempt("synthetic", CurGroup.id, code, CurLevel, "generated",
                                Len(programs), <<>>)>>)
    /\ UNCHANGED <<csvFile, target_list, min_programs, df, tvars, cvars>>

\* the scraper of the current pass is called for the next code and the site
\* answers the search with a listing
SourceAnswers ==
    /\ InPass
    /\ grp <= Len(target_list)
    /\ kpos < Len(CurCodes)
    /\ \E page \in Pages :
        LET code == CurCodes[kpos + 1]
            programs == parse_listing(Source, page, code, CurGroup.id, CurGroup.name,
                                      CurLevel, Len(self_data))
        IN  /\ Extend(programs)
            /\ stats' = [stats EXCEPT ![Source] = @ + Len(programs)]
            /\ attempts' = Append(attempts, Attempt(Tier, CurGroup.id, code, CurLevel, "listing",
                                                    Len(programs), page))
    /\ UNCHANGED <<csvFile, target_list, min_programs, df, tvars, cvars>>

\* the ways a request of a scraper fails: the availability request raises or
\* answers with another status than 200, the search answers with another
\* status than 200, the search or the parsing of its answer raises
FailureCauses == {"site_raises", "site_status", "search_status", "search_raises"}

\* only the failures of the availability request are handled
caught_site_only(cause) ==
    \/ cause = "site_raises"
    \/ cause = "site_status"

\* the failures a scraper handles by returning parse_alternative_source: the
\* bare except and the status test of the availability request, the status
\* test of the search, the except Exception around the search
caught(cause) ==
    \/ cause = "site_raises"
    \/ cause = "site_status"
    \/ cause = "search_status"
    \/ cause = "search_raises"

\* the synthetic records of a failed request counted for the scraper
SourceFailsCounted ==
    /\ InPass
    /\ grp <= Len(target_list)
    /\ kpos < Len(CurCodes)
    /\ \E handled \in {caught(cause) : cause \in FailureCauses} :
        LET code == CurCodes[kpos + 1]
        IN  IF handled
            THEN \E draws \in Draws :
                    LET programs == parse_alternative_source(code, CurGroup.id,
                                        CurGroup.name, CurLevel, Len(self_data), draws)
                    IN  /\ Extend(programs)
                        /\ stats' = [stats EXCEPT ![Source] = @ + Len(programs)]
                        /\ attempts' = attempts \o
                               <<Attempt(Tier, CurGroup.id, code, CurLevel, "failed", 0, <<>>),
                                 Attempt("synthetic", CurGroup.id, code, CurLevel, "generated",
                                         Len(programs), <<>>)>>
            ELSE /\ ppc' = "raised"
                 /\ attempts' = Append(attempts,
                                       Attempt(Tier, CurGroup.id, code, CurLevel, "raised", 0, <<>>))
                 /\ UNCHANGED <<self_data, grp, phase, kpos, stats>>
    /\ UNCHANGED <<csvFile, target_list, min_programs, df, tvars, cvars>>

\* the scraper of the current pass is called for the next code and the site
\* is unavailable or the search fails: it returns parse_alternative_source
SourceFails ==
    /\ InPass
    /\ grp <= Len(target_list)
    /\ kpos < Len(CurCodes)
    /\ \E handled \in {caught(cause) : cause \in FailureCauses} :
        LET code == CurCodes[kpos + 1]
        IN  IF handled
            THEN \E draws \in Draws :
                    LET programs == parse_alternative_source(code, CurGroup.id,
                                        CurGroup.name, CurLevel, Len(self_data), draws)
                    IN  /\ Extend(programs)
                        /\ attempts' = attempts \o
                               <<Attempt(Tier, CurGroup.id, code, CurLevel, "failed", 0, <<>>),
                                 Attempt("synthetic", CurGroup.id, code, CurLevel, "generated",
                                         Len(programs), <<>>)>>
            ELSE /\ ppc' = "raised"
                 /\ attempts' = Append(attempts,
                                       Attempt(Tier, CurGroup.id, code, CurLevel, "raised", 0, <<>>))
                 /\ UNCHANGED <<self_data, grp, phase, kpos>>
    /\ UNCHANGED <<csvFile, target_list, min_programs, stats, df, tvars, cvars>>

\* a for loop over vo_codes or spo_codes has run out: the check after it
EndOfCodes ==
    /\ InPass
    /\ grp <= Len(target_list)
    /\ kpos = Len(CurCodes)
    /\ IF Len(self_data) >= min_programs
       THEN PassEnd(Len(self_data))
       ELSE /\ ppc' = ppc
            /\ kpos' = 0
            /\ IF phase = "vo"
               THEN phase' = "spo" /\ grp' = grp
               ELSE phase' = "vo" /\ grp' = grp + 1
    /\ UNCHANGED <<csvFile, target_list, min_programs, self_data, stats, attempts, df, tvars, cvars>>

\* the for loop over the macro-groups has run out
EndOfGroups ==
    /\ InPass
    /\ grp > Len(target_list)
    /\ PassEnd(Len(self_data))
    /\ UNCHANGED <<csvFile, target_list, min_programs, self_data, stats, attempts, df, tvars, cvars>>

\* the triple drop_duplicates compares
Triple(r) == <<r.fgos_code, r.institution_name, r.program_name>>

\* the last record of each triple kept instead of the first
drop_duplicates_last(rows, kept) ==
    LET last == {i \in DOMAIN rows :
                    \A j \in (i + 1)..Len(rows) : Triple(rows[j]) # Triple(rows[i])}
    IN  kept \o [k \in 1..Cardinality(last) |->
                    rows[CHOOSE i \in last : Cardinality({j \in last : j <= i}) = k]]

\* df.drop_duplicates(subset=[...], keep='first')
RECURSIVE drop_duplicates(_, _)
drop_duplicates(rows, kept) ==
    IF rows = <<>> THEN kept
    ELSE IF \E i \in DOMAIN kept : Triple(kept[i]) = Triple(Head(rows))
         THEN drop_duplicates(Tail(rows), kept)
         ELSE drop_duplicates(Tail(rows), Append(kept, Head(rows)))

\* the ids left as they were collected
renumber_none(rows) == rows

\* df['id'] = range(1, len(df) + 1)
renumber(rows) == [i \in DOMAIN rows |-> [rows[i] EXCEPT !.id = i]]

\* the DataFrame is built, deduplicated and renumbered, and returned
BuildTable ==
    /\ ppc = "build"
    /\ df' = renumber(drop_duplicates(self_data, <<>>))
    /\ ppc' = "returned"
    /\ UNCHANGED <<csvFile, target_list, min_programs, self_data, stats, grp, phase, kpos,
                   attempts, tvars, cvars>>

(***************************************************************************)
(* run(): parse_all_sources, process_data, save_results                    *)
(***************************************************************************)
\* the decimal digit of a value below ten
DigitChar(d) == CHOOSE c \in Digits : DigitValue(c) = d

\* str(x) of a non-negative int
RECURSIVE str(_)
str(x) ==
    IF x < 10 THEN <<DigitChar(x)>> ELSE str(x \div 10) \o <<DigitChar(x % 10)>>

\* the placeholder 'Нет'
Net == <<"cy-N", "cy-e", "cy-t">>

\* the placeholder given to every count below ten
budget_cell_tens(x) == IF x >= 10 THEN str(x) ELSE Net

\* lambda x: str(x) if pd.notna(x) and x != 0 else 'Нет'
budget_cell(x) == IF x # 0 THEN str(x) ELSE Net

\* standardize_region: the words 'Россия, ' and 'Российская Федерация, ' are
\* taken out and the rest is trimmed
standardize_region(region) ==
    strip(replace(replace(region, "Rossiya, ", <<>>), "Rossijskaya Federaciya, ", <<>>))

\* process_data on a DataFrame
process_data(rows) ==
    [i \in DOMAIN rows |->
        [rows[i] EXCEPT !.budget_seats = budget_cell(@),
                        !.region = standardize_region(@)]]

\* df.to_csv(filename, index=False): the cells of one line
to_csv_line(r) ==
    <<str(r.id), <<r.macrogroup_id>>, r.macrogroup_name, r.education_level, r.fgos_code,
      r.program_name, r.institution_name, r.region, r.budget_seats, r.url>>

\* run: df = self.process_data(df)
ProcessData ==
    /\ ppc = "returned"
    /\ df' = process_data(df)
    /\ ppc' = "processed"
    /\ UNCHANGED <<csvFile, target_list, min_programs, self_data, stats, grp, phase, kpos,
                   attempts, tvars, cvars>>

\* run: save_results writes the CSV (the report may or may not follow) and
\* run returns df
SaveResults ==
    /\ ppc = "processed"
    /\ csvFile' = [state |-> "written", rows |-> [i \in DOMAIN df |-> to_csv_line(df[i])]]
    /\ ppc' = "done"
    /\ UNCHANGED <<target_list, min_programs, self_data, stats, grp, phase, kpos,
                   attempts, df, tvars, cvars>>

\* run: to_csv raises, save_results logs the error, and run returns df
SaveResultsFails ==
    /\ ppc = "processed"
    /\ ppc' = "done"
    /\ UNCHANGED <<csvFile, target_list, min_programs, self_data, stats, grp, phase, kpos,
                   attempts, df, tvars, cvars>>

TVarsIdle ==
    /\ tableCsv = AbsentFile
    /\ programsJs = NoProgramsJs
    /\ pc = "idle"
    /\ data = <<>>
    /\ idx = 0
    /\ js_programs = <<>>
    /\ stdout = <<>>
    /\ exit = "running"

InitCollect ==
    /\ TVarsIdle
    /\ crow = <<>>
    /\ cres = Pending
    /\ target_list \in TargetLists
    /\ min_programs \in MinChoices
    /\ self_data = <<>>
    /\ stats = [vuzopedia |-> 0, postupi_online |-> 0, uchebaru |-> 0]
    /\ ppc = "first"
    /\ grp = 1
    /\ phase = "vo"
    /\ kpos = 0
    /\ attempts = <<>>
    /\ df = <<>>
    /\ csvFile = NoCsv

NextCollect ==
    \/ SourceAnswers
    \/ SourceFails
    \/ EndOfCodes
    \/ EndOfGroups
    \/ BuildTable

SpecCollect == InitCollect /\ [][NextCollect]_vars

\* the run is sequential and every request returns or fails: a step that can
\* be taken is taken
SpecCollectFair == InitCollect /\ [][NextCollect]_vars /\ WF_vars(NextCollect)

NextRun ==
    \/ SourceAnswers
    \/ SourceFails
    \/ EndOfCodes
    \/ EndOfGroups
    \/ BuildTable
    \/ ProcessData
    \/ SaveResults
    \/ SaveResultsFails

SpecRun == InitCollect /\ [][NextRun]_vars

(***************************************************************************)
(* Claims about the collection pipeline.                                   *)
(***************************************************************************)
TriedBefore(k, tier) ==
    \E i \in 1..(k - 1) : attempts[i].tier = tier /\ attempts[i].code = attempts[k].code

Scrapers == {"primary", "secondary"}

\* the priority of a tier: the lower the number, the earlier it is meant to
\* be tried
Rank(tier) ==
    CASE tier = "primary" -> 1
      [] tier = "secondary" -> 2
      [] OTHER -> 3

\* attempts j and k are about the same entry of a code list
SameCode(j, k) ==
    /\ attempts[j].group = attempts[k].group
    /\ attempts[j].code = attempts[k].code
    /\ attempts[j].level = attempts[k].level

\* after attempt k the given tier is tried for the code of attempt k
TriedAfter(k, tier) ==
    \E j \in (k + 1)..Len(attempts) : attempts[j].tier = tier /\ SameCode(j, k)

\* C11 as stated: when the run has returned, every scraper attempt that gave
\* no usable record for a code, by a failed request or by a listing without
\* a matching entry, was followed by an attempt of the next tier for that
\* code: the secondary scraper after the primary, the synthetic generator
\* after the secondary.
C11_Claim ==
    ppc = "returned" =>
        \A k \in DOMAIN attempts :
            /\ (attempts[k].tier = "primary" /\ attempts[k].n = 0)
                  => TriedAfter(k, "secondary")
            /\ (attempts[k].tier = "secondary" /\ attempts[k].n = 0)
                  => TriedAfter(k, "synthetic")

\* C12 as stated: once a tier has given at least one usable record for a
\* code, no tier of lower priority is tried for that code afterwards.
C12_Claim ==
    \A k \in DOMAIN attempts :
        attempts[k].n > 0 =>
            \A j \in (k + 1)..Len(attempts) :
                SameCode(j, k) => Rank(attempts[j].tier) <= Rank(attempts[k].tier)

\* C13: every record of the accumulator self.data, scraped or synthetic, has
\* a positive integer budget_seats and an institution_name that holds a
\* government keyword, whatever its case.
C13_Filtered ==
    /\ \A i \in DOMAIN self_data :
          /\ self_data[i].budget_seats \in Nat
          /\ self_data[i].budget_seats > 0
    /\ \A name \in {self_data[i].institution_name : i \in DOMAIN self_data} :
          is_government_institution(name)

\* the accumulator holds the records of a listing that had an entry of a
\* private institution, of one that had an entry without budget seats, and
\* synthetic records
C13_Witness ==
    /\ \E k \in DOMAIN attempts :
          /\ attempts[k].result = "listing" /\ attempts[k].n > 0
          /\ \E e \in DOMAIN attempts[k].page :
                ~is_government_institution(attempts[k].page[e].inst)
    /\ \E k \in DOMAIN attempts :
          /\ attempts[k].result = "listing" /\ attempts[k].n > 0
          /\ \E e \in DOMAIN attempts[k].page :
                findall_digits(attempts[k].page[e].budget) = <<<<"0">>>>
    /\ \E k \in DOMAIN attempts :
          attempts[k].tier = "synthetic" /\ attempts[k].n > 0

\* the number of records the first k attempts gave
RECURSIVE Accumulated(_)
Accumulated(k) == IF k = 0 THEN 0 ELSE Accumulated(k - 1) + attempts[k].n

\* the records attempt k appended to the accumulator
Records(k) == SubSeq(self_data, Accumulated(k - 1) + 1, Accumulated(k))

\* the scraper of a tier
SourceOf(tier) == IF tier = "primary" THEN "vuzopedia" ELSE "postupi_online"

\* a listing without the entries whose handling raises
Healthy(page) == SelectSeq(page, LAMBDA el : ~el.raises)

\* what a record took from its listing entry
Scraped(r) == <<r.id, r.program_name, r.institution_name, r.budget_seats, r.url, r.region>>

\* C14: no failure inside a scraper or the synthetic generator reaches the
\* caller: every call returns a list, a failed scraper request gives no
\* record of its own (the list is the one of the synthetic generator), and
\* the records of a listing are those of the same listing without its
\* failing entries.
C14_Caught ==
    /\ ppc # "raised"
    /\ Len(self_data) = Accumulated(Len(attempts))
    /\ \A k \in DOMAIN attempts :
          /\ attempts[k].result = "failed" =>
                /\ attempts[k].n = 0
                /\ k < Len(attempts)
                /\ attempts[k + 1].tier = "synthetic"
                /\ SameCode(k + 1, k)
          /\ attempts[k].result = "listing" =>
                LET clean == parse_listing(SourceOf(attempts[k].tier),
                                           Healthy(attempts[k].page), attempts[k].code,
                                           "", <<>>, attempts[k].level,
                                           Accumulated(k - 1))
                    got == Records(k)
                IN  /\ Len(got) = Len(clean)
                    /\ \A i \in DOMAIN got : Scraped(got[i]) = Scraped(clean[i])

\* a request has failed, and a listing with an entry whose handling raises
\* gave the record of an entry that comes after it
C14_Witness ==
    /\ \E k \in DOMAIN attempts : attempts[k].result = "failed"
    /\ \E k \in DOMAIN attempts :
          /\ attempts[k].result = "listing"
          /\ \E e \in DOMAIN attempts[k].page :
                /\ attempts[k].page[e].raises
                /\ \E f \in (e + 1)..Len(attempts[k].page), i \in DOMAIN Records(k) :
                      Records(k)[i].program_name = attempts[k].page[f].name

\* the target list holds a specialty code
HasCodes ==
    \E g \in DOMAIN target_list :
        target_list[g].vo_codes # <<>> \/ target_list[g].spo_codes # <<>>

\* requests were made and every request of a scraper failed
AllFailed ==
    /\ attempts # <<>>
    /\ \A k \in DOMAIN attempts :
          attempts[k].tier \in Scrapers => attempts[k].result = "failed"

\* C15 as stated: a run on a target list with a code in which every scraper
\* request fails returns a table with a row, and the synthetic generator
\* gives a record each time it is called, for 'Vysshee' and for 'SPO' alike.
C15_Claim ==
    (ppc = "returned" /\ HasCodes /\ AllFailed) =>
        /\ df # <<>>
        /\ \A k \in DOMAIN attempts :
              attempts[k].tier = "synthetic" => attempts[k].n >= 1

\* the positions of the accumulator that hold the first record of a triple
FirstOccurrences ==
    {i \in DOMAIN self_data :
        \A j \in 1..(i - 1) : Triple(self_data[j]) # Triple(self_data[i])}

\* the k-th of them
NthFirst(k) ==
    CHOOSE i \in FirstOccurrences : Cardinality({j \in FirstOccurrences : j <= i}) = k

\* a record apart from its id
SansId(r) == [r EXCEPT !.id = 0]

\* C16: the returned table has no two records of the same triple {fgos_code,
\* institution_name, program_name}; of the accumulated records of a triple
\* exactly the first is kept, with its other fields, and the kept records
\* are in the order of accumulation.
C16_Dedup ==
    ppc = "returned" =>
        /\ \A a, b \in DOMAIN df : a # b => Triple(df[a]) # Triple(df[b])
        /\ Len(df) = Cardinality(FirstOccurrences)
        /\ \A k \in DOMAIN df : SansId(df[k]) = SansId(self_data[NthFirst(k)])

\* the table was built from an accumulator with two records of one triple
\* that differ in budget_seats
C16_Witness ==
    /\ ppc = "returned"
    /\ \E i, j \in DOMAIN self_data :
          /\ i < j
          /\ Triple(self_data[i]) = Triple(self_data[j])
          /\ self_data[i].budget_seats # self_data[j].budget_seats

\* C17: in the returned table the id column is 1, 2, ..., n in row order,
\* n being the number of rows left after deduplication, whatever ids the
\* records had when they were collected.
C17_Ids ==
    ppc = "returned" => \A k \in DOMAIN df : df[k].id = k

\* the table has a row whose record was collected under another id
C17_Witness ==
    /\ ppc = "returned"
    /\ \E k \in DOMAIN df : self_data[NthFirst(k)].id # k

\* the number of entries of the vo_codes and spo_codes lists
RECURSIVE CodeEntries(_)
CodeEntries(g) ==
    IF g = 0 THEN 0
    ELSE CodeEntries(g - 1) + Len(target_list[g].vo_codes) + Len(target_list[g].spo_codes)

\* the number of requests made at a tier
Requests(tier) == Cardinality({k \in DOMAIN attempts : attempts[k].tier = tier})

C19_Claim ==
    (ppc = "returned" /\ Len(df) < min_programs) =>
        /\ Requests("primary") = CodeEntries(Len(target_list))
        /\ Requests("secondary") = CodeEntries(Len(target_list))

\* C20 as stated: every record of the returned table has a non-empty
\* program_name and a non-empty url.
C20_Claim ==
    ppc = "returned" =>
        \A i \in DOMAIN df : df[i].program_name # <<>> /\ df[i].url # <<>>

(***************************************************************************)
(* The array written by main() of generate_programs.py.                    *)
(***************************************************************************)
\* the k-th row that has both required fields
NthValid(k) ==
    CHOOSE i \in ValidRows : Cardinality({j \in ValidRows : j <= i}) = k

\* C21: the array written to programs.js has exactly one element per
\* accepted row, in the order of the rows of the table: the k-th element is
\* the card of the k-th accepted row, identical rows included.
C21_OnePerRow ==
    programsJs.state = "written" =>
        /\ Len(programsJs.body) = Cardinality(ValidRows)
        /\ \A k \in DOMAIN programsJs.body :
              programsJs.body[k] = generate_program_card(data[NthValid(k)])

\* programs.js was written from a table with two identical accepted rows
C21_Witness ==
    /\ programsJs.state = "written"
    /\ Len(data) = 2
    /\ data[1] = data[2]
    /\ RowValid(data[1])

(***************************************************************************)
(* The counters, the passes and the length of a collection run.            *)
(***************************************************************************)
\* the base urls the scrapers join the href of an entry to
BaseUrls == {"https://vuzopedia.ru", "https://postupi.online"}

\* a record of a listing: its url is empty or starts with a base url, while
\* a synthetic record has the url of an institution
IsScraped(r) == r.url = <<>> \/ r.url[1] \in BaseUrls

\* the number of records the listings of a tier gave
RECURSIVE ListedAt(_, _)
ListedAt(tier, k) ==
    IF k = 0 THEN 0
    ELSE ListedAt(tier, k - 1)
         + (IF attempts[k].tier = tier /\ attempts[k].result = "listing"
            THEN attempts[k].n ELSE 0)

\* C22: the counters account for the scraped records of the accumulator
\* and for nothing else: stats['vuzopedia'] + stats['postupi_online'] is the
\* number of accumulated records that came from a listing, each counter is
\* the number of records the listings of its scraper gave, synthetic
\* records are counted nowhere and stats['uchebaru'] is 0.
C22_Stats ==
    /\ stats.vuzopedia + stats.postupi_online
          = Cardinality({i \in DOMAIN self_data : IsScraped(self_data[i])})
    /\ stats.vuzopedia = ListedAt("primary", Len(attempts))
    /\ stats.postupi_online = ListedAt("secondary", Len(attempts))
    /\ stats.uchebaru = 0

\* the run returned with records of both scrapers and synthetic records in
\* the accumulator
C22_Witness ==
    /\ ppc = "returned"
    /\ stats.vuzopedia > 0
    /\ stats.postupi_online > 0
    /\ \E i \in DOMAIN self_data : ~IsScraped(self_data[i])

\* the pass an attempt belongs to, named by its scraper tier: the synthetic
\* generator runs inside the scraper call that failed
PassOf(k) ==
    IF attempts[k].tier = "synthetic" THEN attempts[k - 1].tier ELSE attempts[k].tier

\* the number of records the first k attempts appended in the first pass
RECURSIVE FirstPassLen(_)
FirstPassLen(k) ==
    IF k = 0 THEN 0
    ELSE FirstPassLen(k - 1) + (IF PassOf(k) = "primary" THEN attempts[k].n ELSE 0)

\* C23: while every scraper request of a run has failed, every record the
\* second pass appended has the triple {fgos_code, institution_name,
\* program_name} of a record of the first pass, and the returned table has
\* one row per triple of the first pass: the second pass adds no row.
C23_SecondPassAddsNothing ==
    AllFailed =>
        LET first == FirstPassLen(Len(attempts))
        IN  /\ \A i \in (first + 1)..Len(self_data) :
                  \E j \in 1..first : Triple(self_data[j]) = Triple(self_data[i])
            /\ ppc = "returned" =>
                  Len(df) = Cardinality({Triple(self_data[j]) : j \in 1..first})

\* every request failed, the second pass appended synthetic records, and
\* with them the accumulated count reached min_programs
C23_Witness ==
    /\ AllFailed
    /\ ppc = "returned"
    /\ FirstPassLen(Len(attempts)) < min_programs
    /\ Len(self_data) >= min_programs
    /\ Len(df) < Len(self_data)

\* each entry of a code list is requested at most once at each scraper, a
\* request is followed by at most one synthetic generation, and the requests
\* number at most twice the entries of the code lists
AttemptsBounded ==
    /\ \A j, k \in DOMAIN attempts :
          (j # k /\ attempts[j].tier \in Scrapers /\ attempts[j].tier = attempts[k].tier)
              => ~SameCode(j, k)
    /\ \A k \in DOMAIN attempts :
          attempts[k].tier = "synthetic" =>
              k > 1 /\ attempts[k - 1].tier \in Scrapers /\ SameCode(k - 1, k)
    /\ Requests("primary") <= CodeEntries(Len(target_list))
    /\ Requests("secondary") <= CodeEntries(Len(target_list))
    /\ Requests("synthetic") <= Requests("primary") + Requests("secondary")

\* a step leaves the records of the accumulator in place
Grows ==
    /\ Len(self_data') >= Len(self_data)
    /\ SubSeq(self_data', 1, Len(self_data)) = self_data

\* C24: parse_all_sources terminates when every request returns or fails:
\* each code entry is requested at most once at the primary and at most
\* once at the secondary scraper, each request starts at most one synthetic
\* generation, the accumulator only grows, and the table is returned.
C24_Terminates ==
    /\ []AttemptsBounded
    /\ [][Grows]_vars
    /\ <>(ppc = "returned")

\* the run returned after requesting every code entry at both scrapers
C24_Witness ==
    /\ ppc = "returned"
    /\ CodeEntries(Len(target_list)) >= 3
    /\ Requests("primary") = CodeEntries(Len(target_list))
    /\ Requests("secondary") = CodeEntries(Len(target_list))

(***************************************************************************)
(* The budget seats run() writes.                                          *)
(***************************************************************************)
\* text is the decimal string of a positive integer
PositiveDecimal(text) ==
    /\ text # <<>>
    /\ \A i \in DOMAIN text : text[i] \in Digits
    /\ text[1] # "0"

\* the budget_seats cell of a line of the CSV
SeatsOf(line) == line[9]

\* C25: after process_data the budget_seats of every record is the decimal
\* string of a positive integer, the one of the count it was collected
\* with, and the placeholder 'Нет' is in no line of the written CSV.
C25_Seats ==
    /\ ppc \in {"processed", "done"} =>
          \A k \in DOMAIN df :
              /\ PositiveDecimal(df[k].budget_seats)
              /\ int(df[k].budget_seats) = self_data[NthFirst(k)].budget_seats
    /\ csvFile.state = "written" =>
          \A k \in DOMAIN csvFile.rows :
              /\ SeatsOf(csvFile.rows[k]) # Net
              /\ PositiveDecimal(SeatsOf(csvFile.rows[k]))

\* the CSV was written with a scraped count and with synthetic counts of one
\* and of two digits
C25_Witness ==
    /\ csvFile.state = "written"
    /\ \E k \in DOMAIN csvFile.rows : SeatsOf(csvFile.rows[k]) = <<"5">>
    /\ \E k \in DOMAIN csvFile.rows : SeatsOf(csvFile.rows[k]) = <<"5", "0">>
    /\ \E k \in DOMAIN csvFile.rows : SeatsOf(csvFile.rows[k]) = <<"1", "2">>

====
